---- MODULE Spec2Model ----
(***************************************************************************)
(* cargo-sleek (src/src/main.rs): a wrapper around cargo that keeps usage  *)
(* statistics in command_stats.json, shows and resets them, checks         *)
(* Cargo.toml against Cargo.lock, times a build and forwards build, clean  *)
(* and run to cargo.                                                       *)
(*                                                                         *)
(* An invocation of the program is a process slot whose position is pc[p]. *)
(* Spec runs invocations one after another in slot 1.  SpecRace runs the   *)
(* track_command of forwarding invocations in two slots at the same time;  *)
(* the invocations share nothing but the statistics file.                  *)
(***************************************************************************)
EXTENDS Integers, Sequences, FiniteSets, TLC

(***************************************************************************)
(* Bounds of the model.                                                    *)
(***************************************************************************)
\* the number of invocations started in one behaviour is at most MaxRuns
MaxRuns == 3
\* the clock readings SystemTime::now() may return are 1..MaxTime
MaxTime == 1

Procs == {1, 2}
Times == 1..MaxTime

(***************************************************************************)
(* Program constants.                                                      *)
(***************************************************************************)
\* usage_count is a u32 (CommandStats, line 16).  A 32-bit number is kept as
\* its two 16-bit halves, [hi, lo] standing for hi * 65536 + lo, because the
\* model checker's own integers end at 2^31 - 1.  A number read from the
\* file may have a hi outside 0..65535: it does not fit a u32.
Half == 65536
Num(n) == [hi |-> n \div Half, lo |-> n % Half]
Zero == Num(0)
U32Max == [hi |-> Half - 1, lo |-> Half - 1]
TooBig == [hi |-> Half, lo |-> 0]
\* a < b and a <= b as numbers
Less(a, b) == a.hi < b.hi \/ (a.hi = b.hi /\ a.lo < b.lo)
AtMost(a, b) == a = b \/ Less(a, b)
\* b is the number a + 1
Succ(a, b) ==
    IF a.lo < Half - 1 THEN b = [hi |-> a.hi, lo |-> a.lo + 1]
    ELSE b = [hi |-> a.hi + 1, lo |-> 0]
\* a + 1 in u32 arithmetic without overflow checks
WrappingInc(a) ==
    IF a.lo < Half - 1 THEN [hi |-> a.hi, lo |-> a.lo + 1]
    ELSE IF a.hi < Half - 1 THEN [hi |-> a.hi + 1, lo |-> 0]
    ELSE Zero

\* exit statuses of the wrapper: main returns Ok(()) / Err(_), a panic, a
\* clap usage error
ExitOk == 0
ExitErr == 1
ExitPanic == 101
ExitUsage == 2
NoExit == -1

\* subcommands registered with clap (lines 217-227)
Analytic == {"stats", "reset", "check-deps", "build-time"}
Passthrough == {"build", "clean", "run"}
Registered == Analytic \cup Passthrough
\* "" stands for an invocation without a subcommand, "test" for a token
\* that is not registered
Tokens == Registered \cup {"test", ""}
Cmds == Passthrough

\* argument vectors that matches.get_many("args") may yield (no subcommand
\* declares an argument "args", lines 225-227, so clap itself only ever
\* yields the empty one)
Extras == {<<>>, <<"--release", "-q">>}

\* what status.code() of the child may be: an exit code, or None (NoCode)
\* when a signal ended the child; Pending while the child has not ended
ChildCodes == {0, 7}
NoCode == -1
Pending == -2
ChildResults == ChildCodes \cup {NoCode}

(***************************************************************************)
(* Finite maps (HashMap<String, CommandStats>) and sequences.              *)
(***************************************************************************)
\* CommandStats::default() (derive(Default), line 14)
DefaultStats == [usage_count |-> Zero, last_used |-> 0]

EmptyMap == [c \in {} |-> DefaultStats]

Range(s) == {s[i] : i \in DOMAIN s}

\* all orders in which the elements of S can be listed
Perms(S) == {s \in [1..Cardinality(S) -> S] : Range(s) = S}

\* m with key k bound to v
Put(m, k, v) == [c \in (DOMAIN m) \cup {k} |-> IF c = k THEN v ELSE m[c]]

(***************************************************************************)
(* The statistics file command_stats.json.                                 *)
(*   kind "absent"      the path does not exist                            *)
(*   kind "unreadable"  the path exists, File::open fails                  *)
(*   kind "garbage"     the bytes are not a JSON object (also a file that  *)
(*                      a failed write left truncated)                     *)
(*   kind "json"        a JSON object; text lists its members in file      *)
(*                      order, each {"usage_count": n, "last_used": t}     *)
(***************************************************************************)
Absent == [kind |-> "absent", text |-> <<>>]
Unreadable == [kind |-> "unreadable", text |-> <<>>]
Garbage == [kind |-> "garbage", text |-> <<>>]
Json(text) == [kind |-> "json", text |-> text]

Member(k, n, t) == [key |-> k, usage_count |-> n, last_used |-> t]

\* serde accepts a member only if its numbers fit the field types
FitsU32(n) == n.hi >= 0 /\ n.hi < Half /\ n.lo >= 0 /\ n.lo < Half

\* serde_json::from_reader into HashMap<String, CommandStats>: members are
\* inserted in file order, a repeated key overwrites the earlier one
RECURSIVE ParseText(_)
ParseText(text) ==
    IF text = <<>> THEN EmptyMap
    ELSE LET n == Len(text)
             e == text[n]
         IN Put(ParseText(SubSeq(text, 1, n - 1)), e.key,
                [usage_count |-> e.usage_count, last_used |-> e.last_used])

\* from_reader returns Ok only for a JSON object all of whose members fit
Deserializable(f) ==
    /\ f.kind = "json"
    /\ \A i \in DOMAIN f.text : FitsU32(f.text[i].usage_count) /\ f.text[i].last_used >= 0

\* a variant of load_stats that keeps the members that fit and drops the others
load_stats_lenient(f) ==
    IF f.kind # "json" THEN EmptyMap
    ELSE ParseText(SelectSeq(f.text, LAMBDA e : FitsU32(e.usage_count)))

load_stats(f) ==
    IF f.kind = "absent" THEN EmptyMap
    ELSE IF f.kind = "unreadable" THEN EmptyMap
    ELSE IF Deserializable(f) THEN ParseText(f.text)
    ELSE EmptyMap

\* The iteration order of a HashMap is arbitrary.  show_stats prints in it,
\* so there every order is tried.  The writer's order is fixed to this one:
\* the only reader of the file is ParseText, whose result does not depend on
\* the order of members with different keys.
KeyOrder == <<"build", "clean", "run">>
iter_order(stats) == SelectSeq(KeyOrder, LAMBDA k : k \in DOMAIN stats)

\* serde_json::to_string_pretty(stats): the members in iteration order
to_string_pretty(stats, order) ==
    [i \in 1..Len(order) |->
        Member(order[i], stats[order[i]].usage_count, stats[order[i]].last_used)]

\* fs::write(STATS_FILE, text) creates or truncates the file and writes the
\* text.  It can fail before touching the file ("denied") or after having
\* truncated it ("truncated").
WriteOutcomes == {"ok", "denied", "truncated"}

\* a variant of fs_write that appends the members to what the file holds
fs_write_append(f, text, outcome) ==
    IF outcome = "ok"
    THEN Json((IF f.kind = "json" THEN f.text ELSE <<>>) \o text)
    ELSE IF outcome = "truncated" THEN Garbage ELSE f

fs_write(f, text, outcome) ==
    IF outcome = "ok" THEN Json(text)
    ELSE IF outcome = "truncated" THEN Garbage
    ELSE f

(***************************************************************************)
(* track_command: the in-memory part, between load_stats and save_stats.   *)
(***************************************************************************)
\* usage_count += 1 on a u32: when the sum does not fit, a build with
\* overflow checks panics and a build without them wraps around
Overflows(n) == n = U32Max

\* a variant that stores the count without adding to it
bump_none(m, command, now) ==
    LET old == IF command \in DOMAIN m THEN m[command] ELSE DefaultStats
    IN Put(m, command, [usage_count |-> old.usage_count, last_used |-> now])

\* a variant that keeps only the record it updates
bump_alone(m, command, now) ==
    LET old == IF command \in DOMAIN m THEN m[command] ELSE DefaultStats
    IN Put(EmptyMap, command,
           [usage_count |-> WrappingInc(old.usage_count), last_used |-> now])

\* lines 51-53: entry(command).or_default(), usage_count += 1, last_used = now
bump(m, command, now) ==
    LET old == IF command \in DOMAIN m THEN m[command] ELSE DefaultStats
    IN Put(m, command,
           [usage_count |-> WrappingInc(old.usage_count), last_used |-> now])

\* the count the store holds for a command, 0 when it holds no record
CountOf(m, c) == IF c \in DOMAIN m THEN m[c].usage_count ELSE Zero

(***************************************************************************)
(* show_stats: the table that is printed.                                  *)
(***************************************************************************)
\* position at which row r goes into the sorted prefix s: after every row
\* whose count is at least r's (the sort is stable)
RECURSIVE InsertDesc(_, _)
InsertDesc(s, r) ==
    IF s = <<>> THEN <<r>>
    ELSE IF AtMost(r.count, Head(s).count) THEN <<Head(s)>> \o InsertDesc(Tail(s), r)
    ELSE <<r>> \o s

\* a variant of the comparator with its operands the other way round
RECURSIVE InsertAsc(_, _)
InsertAsc(s, r) ==
    IF s = <<>> THEN <<r>>
    ELSE IF AtMost(Head(s).count, r.count) THEN <<Head(s)>> \o InsertAsc(Tail(s), r)
    ELSE <<r>> \o s

RECURSIVE sort_asc(_)
sort_asc(s) ==
    IF s = <<>> THEN <<>>
    ELSE InsertAsc(sort_asc(SubSeq(s, 1, Len(s) - 1)), s[Len(s)])

\* sorted.sort_by(|a, b| b.1.usage_count.cmp(&a.1.usage_count)), line 67
RECURSIVE sort_by_count(_)
sort_by_count(s) ==
    IF s = <<>> THEN <<>>
    ELSE InsertDesc(sort_by_count(SubSeq(s, 1, Len(s) - 1)), s[Len(s)])

\* lines 66-84: collect the map in iteration order, sort, number the rows
show_rows(stats, order) ==
    LET items == [i \in 1..Len(order) |->
                    [cmd |-> order[i], count |-> stats[order[i]].usage_count,
                     minute |-> stats[order[i]].last_used \div 60]]
        sorted == sort_by_count(items)
    IN [i \in 1..Len(sorted) |->
          [rank |-> i, cmd |-> sorted[i].cmd, count |-> sorted[i].count,
           minute |-> sorted[i].minute]]

(***************************************************************************)
(* check_unused_deps.  A text is a sequence of one-character strings, a    *)
(* manifest the sequence of its lines (cargo_toml.lines()).                *)
(***************************************************************************)
IsSpace(ch) == ch = " "

\* str::trim
RECURSIVE TrimStart(_)
TrimStart(s) == IF s # <<>> /\ IsSpace(Head(s)) THEN TrimStart(Tail(s)) ELSE s

RECURSIVE TrimEnd(_)
TrimEnd(s) ==
    IF s # <<>> /\ IsSpace(s[Len(s)]) THEN TrimEnd(SubSeq(s, 1, Len(s) - 1)) ELSE s

Trim(s) == TrimEnd(TrimStart(s))

\* str::starts_with
StartsWith(s, p) == Len(p) <= Len(s) /\ SubSeq(s, 1, Len(p)) = p

\* str::contains
Contains(s, sub) ==
    \E i \in 0..(Len(s) - Len(sub)) : SubSeq(s, i + 1, i + Len(sub)) = sub

\* trimmed.split('=').next(): the text before the first '=', the whole text
\* when there is none
SplitFirst(s) ==
    IF \E i \in DOMAIN s : s[i] = "="
    THEN SubSeq(s, 1, (CHOOSE i \in DOMAIN s :
                          s[i] = "=" /\ \A j \in DOMAIN s : s[j] = "=" => i <= j) - 1)
    ELSE s

DepsMarker == <<"[", "d", "e", "p", "e", "n", "d", "e", "n", "c", "i", "e", "s", "]">>

\* a variant of the loop body in which a header does not end the section
scan_line_sticky(st, line, lock) ==
    LET trimmed == Trim(line)
    IN IF StartsWith(trimmed, DepsMarker)
       THEN [in_deps |-> TRUE, unused |-> st.unused]
       ELSE IF st.in_deps /\ ~Contains(lock, Trim(SplitFirst(trimmed)))
            THEN [in_deps |-> st.in_deps,
                  unused |-> Append(st.unused, Trim(SplitFirst(trimmed)))]
            ELSE st

\* one iteration of the loop of lines 144-163 on the state (in_deps, unused)
scan_line(st, line, lock) ==
    LET trimmed == Trim(line)
    IN IF StartsWith(trimmed, DepsMarker)
       THEN [in_deps |-> TRUE, unused |-> st.unused]
       ELSE LET in_deps == IF StartsWith(trimmed, <<"[">>) THEN FALSE ELSE st.in_deps
                dep == Trim(SplitFirst(trimmed))
            IN IF in_deps /\ ~Contains(lock, dep)
               THEN [in_deps |-> in_deps, unused |-> Append(st.unused, dep)]
               ELSE [in_deps |-> in_deps, unused |-> st.unused]

\* the whole loop
RECURSIVE scan_all(_, _)
scan_all(toml, lock) ==
    IF toml = <<>> THEN [in_deps |-> FALSE, unused |-> <<>>]
    ELSE scan_line(scan_all(SubSeq(toml, 1, Len(toml) - 1), lock), toml[Len(toml)], lock)

(***************************************************************************)
(* Inputs of the model.                                                    *)
(***************************************************************************)
\* statistics files the program may find when it starts
InitFiles ==
    { Absent, Unreadable, Garbage, Json(<<>>),
      Json(<<Member("build", Num(1), 1)>>),
      Json(<<Member("build", Num(5), 1), Member("clean", Num(1), 1),
             Member("run", Num(3), 2)>>),
      Json(<<Member("clean", Num(2), 1), Member("run", Num(2), 1)>>),
      Json(<<Member("build", U32Max, 1)>>),
      Json(<<Member("build", Num(4), 1), Member("run", TooBig, 1)>>) }

L_deps == DepsMarker
L_dev == <<"[", "d", "e", "v", "-", "d", "e", "p", "e", "n", "d", "e", "n", "c", "i", "e", "s", "]">>
L_foo == <<"f", "o", "o", " ", "=", " ", "1">>
L_bar == <<" ", "b", "a", "r", "=", "=", " ">>
L_baz == <<"b", "a", "z", " ", "=", " ", "3">>
L_fo == <<"f", "o">>
L_blank == <<>>
SampleLines == {L_deps, L_dev, L_foo, L_bar, L_baz, L_fo, L_blank}

T_foo == <<"f", "o", "o">>
T_bar == <<"b", "a", "r">>
\* Cargo.lock texts; the empty text is also what a missing Cargo.lock gives
\* (unwrap_or_default, line 139)
Locks == {<<>>, T_foo}

\* the manifest of the example: foo and bar declared, baz a dev-dependency
ExampleToml == <<L_deps, L_foo, L_bar, L_dev, L_baz>>

\* manifests are at most MaxLines lines long
MaxLines == 5
Manifests == UNION {[1..n -> SampleLines] : n \in 0..MaxLines}

(***************************************************************************)
(* State.                                                                  *)
(***************************************************************************)
VARIABLES
    file,       \* command_stats.json
    pc,         \* pc[p]: "idle", "tracking" (track_command between load and
                \*   save), "spawning" (tracked, child not started),
                \*   "running" (waiting for the child), "done"
    inv,        \* inv[p]: the subcommand token and the forwarded arguments
    stats,      \* stats[p]: the map track_command holds in memory
    before,     \* before[p]: the count of the command when p loaded the file
    argv,       \* argv[p]: the arguments the child was spawned with
    child,      \* child[p]: what the child reported, Pending until it has
    exit,       \* exit[p]: the exit status of the wrapper, NoExit until it ends
    msg,        \* msg[p]: the last message printed
    rows,       \* rows[p]: the table show_stats printed
    prof,       \* prof[p]: what analyze_build_time saw and printed
    runs,       \* number of invocations started
    \* history
    file0,      \* the file as the first invocation found it
    calls,      \* calls[c]: track_command(c) calls that returned Ok
    wiped,      \* a reset --force wrote the file
    fault,      \* a write of the file failed
    lastSaved,  \* the map of the last write that succeeded
    \* check_unused_deps, line by line
    toml, lock, idx, scan

storeVars == <<file, file0, calls, wiped, fault, lastSaved>>
procVars == <<pc, inv, stats, before, argv, child, exit, msg, rows, prof, runs>>
depsVars == <<toml, lock, idx, scan>>
vars == <<file, pc, inv, stats, before, argv, child, exit, msg, rows, prof, runs,
          file0, calls, wiped, fault, lastSaved, toml, lock, idx, scan>>

NoInv == [token |-> "", extra |-> <<>>]
\* no build was timed: no status of the tool, nothing it or the wrapper printed
NoProf == [status |-> Pending, output |-> <<>>, lines |-> <<>>]
NoneSaved == [written |-> FALSE, map |-> EmptyMap]
ScanStart == [in_deps |-> FALSE, unused |-> <<>>]

InitProcs ==
    /\ pc = [p \in Procs |-> "idle"]
    /\ inv = [p \in Procs |-> NoInv]
    /\ stats = [p \in Procs |-> EmptyMap]
    /\ before = [p \in Procs |-> Zero]
    /\ argv = [p \in Procs |-> <<>>]
    /\ child = [p \in Procs |-> Pending]
    /\ exit = [p \in Procs |-> NoExit]
    /\ msg = [p \in Procs |-> ""]
    /\ rows = [p \in Procs |-> <<>>]
    /\ prof = [p \in Procs |-> NoProf]
    /\ runs = 0

InitStore(f) ==
    /\ file = f
    /\ file0 = f
    /\ calls = [c \in Cmds |-> 0]
    /\ wiped = FALSE
    /\ fault = FALSE
    /\ lastSaved = NoneSaved

InitDepsIdle ==
    /\ toml = <<>>
    /\ lock = <<>>
    /\ idx = 0
    /\ scan = ScanStart

Init ==
    /\ \E f \in InitFiles : InitStore(f)
    /\ InitProcs
    /\ InitDepsIdle

(***************************************************************************)
(* main: an invocation starts in a free slot.                              *)
(***************************************************************************)
\* the bookkeeping common to every start of an invocation by p
Launch(p, token, extra) ==
    /\ pc[p] \in {"idle", "done"}
    /\ runs < MaxRuns
    /\ runs' = runs + 1
    /\ inv' = [inv EXCEPT ![p] = [token |-> token, extra |-> extra]]
    /\ argv' = [argv EXCEPT ![p] = <<>>]
    /\ child' = [child EXCEPT ![p] = Pending]

\* p ends with status e after printing m; t is the table it printed, pr
\* the record of the build it timed
FinishWith(p, e, m, t, pr) ==
    /\ pc' = [pc EXCEPT ![p] = "done"]
    /\ exit' = [exit EXCEPT ![p] = e]
    /\ msg' = [msg EXCEPT ![p] = m]
    /\ rows' = [rows EXCEPT ![p] = t]
    /\ prof' = [prof EXCEPT ![p] = pr]
    /\ stats' = [stats EXCEPT ![p] = EmptyMap]
    /\ before' = [before EXCEPT ![p] = Zero]

Finish(p, e, m, t) == FinishWith(p, e, m, t, NoProf)

\* get_matches() rejects a token that is no registered subcommand
UsageError(p) ==
    \E token \in Tokens \ (Registered \cup {""}) :
        /\ Launch(p, token, <<>>)
        /\ Finish(p, ExitUsage, "usage", <<>>)
        /\ UNCHANGED <<storeVars, depsVars>>

\* the arm `_` of the match: no subcommand was given
UnknownCommand(p) ==
    /\ Launch(p, "", <<>>)
    /\ Finish(p, ExitOk, "unknown", <<>>)
    /\ UNCHANGED <<storeVars, depsVars>>

(***************************************************************************)
(* stats::show_stats and stats::reset_stats.                               *)
(***************************************************************************)
\* a variant of show_stats that creates the store when it finds no data
ShowStatsCreating(p) ==
    /\ Launch(p, "stats", <<>>)
    /\ LET loaded == load_stats(file)
       IN IF loaded = EmptyMap
          THEN /\ Finish(p, ExitOk, "nodata", <<>>)
               /\ file' = fs_write(file, <<>>, "ok")
          ELSE /\ \E order \in Perms(DOMAIN loaded) :
                     Finish(p, ExitOk, "table", show_rows(loaded, order))
               /\ file' = file
    /\ UNCHANGED <<file0, calls, wiped, fault, lastSaved, depsVars>>

\* lines 59-86: load, "No command usage data" for an empty map, else the
\* table sorted by count; the file is only read
ShowStats(p) ==
    /\ Launch(p, "stats", <<>>)
    /\ LET loaded == load_stats(file)
       IN IF loaded = EmptyMap
          THEN Finish(p, ExitOk, "nodata", <<>>)
          ELSE \E order \in Perms(DOMAIN loaded) :
                  Finish(p, ExitOk, "table", show_rows(loaded, order))
    /\ UNCHANGED <<storeVars, depsVars>>

\* a variant of reset_stats that writes whether or not --force is given
reset_stats_always(f, force, outcome) ==
    [file |-> fs_write(f, <<>>, outcome), ok |-> outcome = "ok", msg |-> "reset"]

\* a variant of reset_stats that reports the reset without writing
reset_stats_never(f, force, outcome) ==
    [file |-> f, ok |-> TRUE, msg |-> IF force THEN "reset" ELSE "confirm"]

\* lines 88-96: with --force fs::write(STATS_FILE, "{}")?, else only a hint.
\* The result is the file afterwards, whether Ok(()) is returned, and the
\* message printed when it is.
reset_stats(f, force, outcome) ==
    IF force
    THEN [file |-> fs_write(f, <<>>, outcome), ok |-> outcome = "ok", msg |-> "reset"]
    ELSE [file |-> f, ok |-> TRUE, msg |-> "confirm"]

ForceArgs(force) == IF force THEN <<"--force">> ELSE <<>>

ResetStats(p) ==
    \E force \in BOOLEAN, outcome \in WriteOutcomes :
        /\ Launch(p, "reset", ForceArgs(force))
        /\ LET r == reset_stats(file, force, outcome)
           IN /\ file' = r.file
              /\ Finish(p, IF r.ok THEN ExitOk ELSE ExitErr,
                        IF r.ok THEN r.msg ELSE "error", <<>>)
              /\ wiped' = (wiped \/ (force /\ r.ok))
              /\ fault' = (fault \/ ~r.ok)
              /\ lastSaved' = IF force /\ r.ok
                              THEN [written |-> TRUE, map |-> EmptyMap]
                              ELSE lastSaved
        /\ UNCHANGED <<file0, calls, depsVars>>

(***************************************************************************)
(* dependencies::check_unused_deps and performance::analyze_build_time as  *)
(* whole handlers.  Neither touches the statistics file.                   *)
(***************************************************************************)
\* Cargo.toml cannot be read: read_to_string(..).context(..)? returns Err
CheckDepsUnreadable(p) ==
    /\ Launch(p, "check-deps", <<>>)
    /\ Finish(p, ExitErr, "error", <<>>)
    /\ UNCHANGED <<storeVars, depsVars>>

CheckDeps(p) ==
    /\ Launch(p, "check-deps", <<>>)
    /\ \E m \in {<<>>, ExampleToml}, l \in Locks :
          Finish(p, ExitOk,
                 IF scan_all(m, l).unused = <<>> THEN "no_unused" ELSE "unused", <<>>)
    /\ UNCHANGED <<storeVars, depsVars>>

\* what cargo build --timings may print; .status() lets the child inherit
\* the standard streams, so the wrapper does not see any of it
ToolOutputs ==
    { <<>>, <<"Compiling a">>, <<"slowest: a", "Compiling b", "slowest: b">> }

\* a variant of analyze_build_time in which a failed build is an error
analyze_build_time_strict(spawned, result, verbose) ==
    IF ~spawned \/ result # 0
    THEN [ok |-> FALSE, lines |-> <<"analyzing">>]
    ELSE [ok |-> TRUE,
          lines |-> <<"analyzing", "completed", "size">>
                    \o (IF verbose THEN <<"timings">> ELSE <<>>)]

\* lines 103-129: whether Ok(()) is returned and the lines printed, given
\* whether cargo could be started and the status.code() it ended with
analyze_build_time(spawned, result, verbose) ==
    IF ~spawned
    THEN [ok |-> FALSE, lines |-> <<"analyzing">>]
    ELSE IF result = 0
    THEN [ok |-> TRUE,
          lines |-> <<"analyzing", "completed", "size">>
                    \o (IF verbose THEN <<"timings">> ELSE <<>>)]
    ELSE [ok |-> TRUE, lines |-> <<"analyzing", "failed">>]

\* cargo build --timings cannot be spawned: .status().context(..)? returns Err
BuildTimeSpawnFails(p) ==
    /\ Launch(p, "build-time", <<>>)
    /\ \E verbose \in BOOLEAN :
          LET r == analyze_build_time(FALSE, Pending, verbose)
          IN FinishWith(p, IF r.ok THEN ExitOk ELSE ExitErr,
                        IF r.ok THEN r.lines[Len(r.lines)] ELSE "error", <<>>,
                        [status |-> Pending, output |-> <<>>, lines |-> r.lines])
    /\ UNCHANGED <<storeVars, depsVars>>

\* the build ran; status.success() is true for exit code 0 only
BuildTime(p) ==
    /\ Launch(p, "build-time", <<>>)
    /\ \E verbose \in BOOLEAN, result \in ChildResults, output \in ToolOutputs :
          LET r == analyze_build_time(TRUE, result, verbose)
          IN FinishWith(p, IF r.ok THEN ExitOk ELSE ExitErr,
                        IF r.ok THEN r.lines[Len(r.lines)] ELSE "error", <<>>,
                        [status |-> result, output |-> output, lines |-> r.lines])
    /\ UNCHANGED <<storeVars, depsVars>>

(***************************************************************************)
(* executor::execute_cargo_command, in the steps at which other            *)
(* invocations can come in between: the load of track_command, its save,   *)
(* the spawn of cargo, the end of the child.                               *)
(***************************************************************************)
\* line 183 up to line 53: load the file and update the record in memory.
\* checked tells whether the build has overflow checks.
ExecuteLoad(p) ==
    \E command \in Passthrough, extra \in Extras, now \in Times, checked \in BOOLEAN :
        /\ Launch(p, command, extra)
        /\ LET loaded == load_stats(file)
           IN IF Overflows(CountOf(loaded, command)) /\ checked
              THEN Finish(p, ExitPanic, "panic", <<>>)
              ELSE /\ pc' = [pc EXCEPT ![p] = "tracking"]
                   /\ stats' = [stats EXCEPT ![p] = bump(loaded, command, now)]
                   /\ before' = [before EXCEPT ![p] = CountOf(loaded, command)]
                   /\ exit' = [exit EXCEPT ![p] = NoExit]
                   /\ msg' = [msg EXCEPT ![p] = "running"]
                   /\ rows' = [rows EXCEPT ![p] = <<>>]
                   /\ prof' = [prof EXCEPT ![p] = NoProf]
        /\ UNCHANGED <<storeVars, depsVars>>

\* line 55: save_stats(&stats)? writes the whole map
\* a variant in which the error of save_stats is dropped
track_command_ok_always(outcome) == TRUE

\* whether track_command returns Ok(()): the `?` of line 55 hands on the
\* error of save_stats, the `?` of line 183 returns it before cargo is started
track_command_ok(outcome) == outcome = "ok"

TrackSave(p) ==
    /\ pc[p] = "tracking"
    /\ \E outcome \in WriteOutcomes :
          /\ file' = fs_write(file, to_string_pretty(stats[p], iter_order(stats[p])), outcome)
          /\ IF track_command_ok(outcome)
             THEN /\ pc' = [pc EXCEPT ![p] = "spawning"]
                  /\ calls' = [calls EXCEPT ![inv[p].token] = @ + 1]
                  /\ lastSaved' = [written |-> TRUE, map |-> stats[p]]
                  /\ UNCHANGED <<exit, msg, fault>>
             ELSE /\ pc' = [pc EXCEPT ![p] = "done"]
                  /\ exit' = [exit EXCEPT ![p] = ExitErr]
                  /\ msg' = [msg EXCEPT ![p] = "error"]
                  /\ fault' = TRUE
                  /\ UNCHANGED <<calls, lastSaved>>
    /\ UNCHANGED <<inv, stats, before, argv, child, rows, prof, runs,
                   file0, wiped, depsVars>>

\* the arguments given to Command::new("cargo"), lines 185-190
child_args(command, extra) == <<command>> \o extra

\* line 196: cmd.status() starts cargo
Spawn(p) ==
    /\ pc[p] = "spawning"
    /\ pc' = [pc EXCEPT ![p] = "running"]
    /\ argv' = [argv EXCEPT ![p] = child_args(inv[p].token, inv[p].extra)]
    /\ UNCHANGED <<inv, stats, before, child, exit, msg, rows, prof, runs,
                   storeVars, depsVars>>

\* a variant in which the error of the spawn is dropped and Ok(()) returned
exit_after_spawn_failure_ok == ExitOk

\* the status with which main ends when cmd.status() returns Err: the `?` of
\* line 196 returns it from execute_cargo_command, the `?` of lines 237-239
\* from main
exit_after_spawn_failure == ExitErr

\* line 196: cargo cannot be started, .context(..)? returns Err
SpawnFails(p) ==
    /\ pc[p] = "spawning"
    /\ pc' = [pc EXCEPT ![p] = "done"]
    /\ exit' = [exit EXCEPT ![p] = exit_after_spawn_failure]
    /\ msg' = [msg EXCEPT ![p] = "error"]
    /\ UNCHANGED <<inv, stats, before, argv, child, rows, prof, runs,
                   storeVars, depsVars>>

\* the status with which main ends once the child has reported result:
\* execute_cargo_command returns Ok(()) (line 201) and so does main (line 243)
exit_after_child(result) == ExitOk

\* lines 196-201 and 243: the child has ended
ChildExit(p) ==
    /\ pc[p] = "running"
    /\ \E result \in ChildResults :
          /\ child' = [child EXCEPT ![p] = result]
          /\ msg' = [msg EXCEPT ![p] = IF result = 0 THEN "running" ELSE "failed"]
          /\ exit' = [exit EXCEPT ![p] = exit_after_child(result)]
    /\ pc' = [pc EXCEPT ![p] = "done"]
    /\ UNCHANGED <<inv, stats, before, argv, rows, prof, runs,
                   storeVars, depsVars>>

\* one step of the invocation in slot p
Step(p) ==
    \/ UsageError(p)
    \/ UnknownCommand(p)
    \/ ShowStats(p)
    \/ ResetStats(p)
    \/ CheckDepsUnreadable(p)
    \/ CheckDeps(p)
    \/ BuildTimeSpawnFails(p)
    \/ BuildTime(p)
    \/ ExecuteLoad(p)
    \/ TrackSave(p)
    \/ Spawn(p)
    \/ SpawnFails(p)
    \/ ChildExit(p)

\* invocations one after another
Next == Step(1)

Spec == Init /\ [][Next]_vars

\* track_command of the forwarding invocations of two slots, interleaved at
\* its two file accesses
NextRace ==
    \E p \in Procs :
        \/ ExecuteLoad(p)
        \/ TrackSave(p)

SpecRace == Init /\ [][NextRace]_vars

(***************************************************************************)
(* check_unused_deps line by line: idx lines of toml have been scanned.    *)
(***************************************************************************)
InitDeps ==
    /\ InitStore(Absent)
    /\ InitProcs
    /\ toml \in Manifests
    /\ lock \in Locks
    /\ idx = 0
    /\ scan = ScanStart

\* one iteration of the loop of lines 144-163
ScanLine ==
    /\ idx < Len(toml)
    /\ idx' = idx + 1
    /\ scan' = scan_line(scan, toml[idx + 1], lock)
    /\ UNCHANGED <<toml, lock, storeVars, procVars>>

NextDeps == ScanLine

SpecDeps == InitDeps /\ [][NextDeps]_vars

(***************************************************************************)
(* Properties.                                                             *)
(***************************************************************************)
Stored(c) == CountOf(load_stats(file), c)
NoRecordAtStart(c) == c \notin DOMAIN load_stats(file0)

\* p is waiting for its child or has its result
ChildStarted(p) == pc[p] = "running" \/ (pc[p] = "done" /\ child[p] # Pending)
ChildEnded(p) == pc[p] = "done" /\ child[p] # Pending

\* C1: invocations run one after another (Spec).  If the store had no record
\* for x at the start, no reset --force has written and no write has failed,
\* then after N >= 1 track_command(x) calls the stored count of x is N.
C1_SequentialCount ==
    \A x \in Cmds :
        (NoRecordAtStart(x) /\ ~wiped /\ ~fault /\ calls[x] >= 1)
            => Stored(x) = Num(calls[x])

C1_Witness ==
    /\ file0 = Absent
    /\ ~wiped /\ ~fault
    /\ calls["build"] = 3
    /\ Stored("build") = Num(3)

\* C2: when the child has ended, the wrapper ends with the child's exit
\* code, and with 1 when the child reported no code.
C2_ExitCodePropagated ==
    \A p \in Procs :
        ChildEnded(p) => exit[p] = (IF child[p] = NoCode THEN 1 ELSE child[p])

\* C3: in a forwarding invocation, once the child has been started (so when
\* its result becomes known, whatever it is) the stored count of the command
\* is one higher than it was before the invocation.
C3_TrackedBeforeResult ==
    \A p \in Procs :
        ChildStarted(p) => Succ(before[p], Stored(inv[p].token))

\* Apart from a count at the top of the u32 range, C3 holds.
C3_ExceptOverflow ==
    \A p \in Procs :
        (ChildStarted(p) /\ before[p] # U32Max) => Succ(before[p], Stored(inv[p].token))

\* C4: with two invocations at once (SpecRace) an update can be lost but
\* none is invented: the file holds exactly the map of the last successful
\* writer, and the stored count of a command that had no record at the start
\* never exceeds the number of completed track_command calls for it.
C4_LastWriterWins ==
    /\ (lastSaved.written /\ file.kind = "json") => load_stats(file) = lastSaved.map
    /\ \A x \in Cmds :
          (NoRecordAtStart(x) /\ ~fault) => AtMost(Stored(x), Num(calls[x]))

\* two track_command("build") calls have completed, the count is 1
C4_LostUpdate ==
    /\ NoRecordAtStart("build") /\ ~fault
    /\ calls["build"] = 2
    /\ pc[1] = "spawning" /\ pc[2] = "spawning"
    /\ Stored("build") = Num(1)

\* an invocation of reset starts (and ends) in this step
ResetStep(p, args) ==
    /\ runs' = runs + 1
    /\ pc'[p] = "done"
    /\ inv'[p] = [token |-> "reset", extra |-> args]

\* C5: reset without --force leaves the file as it is, whatever it was, and
\* ends with exit status 0 after the hint.
C5_UnforcedResetNoMutation ==
    [][\A p \in Procs :
          ResetStep(p, <<>>) => (file' = file /\ exit'[p] = ExitOk /\ msg'[p] = "confirm")]_vars

C5_Witness ==
    /\ pc[1] = "done" /\ inv[1] = [token |-> "reset", extra |-> <<>>]
    /\ exit[1] = ExitOk
    /\ file = file0 /\ load_stats(file) # EmptyMap
    /\ runs = 1

\* C6: a reset --force that completes leaves the empty mapping, whatever the
\* file was: load_stats returns the empty map and a track_command(x) on it
\* gives x the count 1.
C6_ForcedResetEmpties ==
    [][\A p \in Procs :
          (ResetStep(p, <<"--force">>) /\ exit'[p] = ExitOk)
              => /\ load_stats(file') = EmptyMap
                 /\ file'.kind = "json"
                 /\ \A x \in Cmds, now \in Times :
                       CountOf(bump(load_stats(file'), x, now), x) = Num(1)]_vars

C6_Witness ==
    /\ pc[1] = "done" /\ inv[1] = [token |-> "reset", extra |-> <<"--force">>]
    /\ exit[1] = ExitOk
    /\ load_stats(file0) # EmptyMap
    /\ file = Json(<<>>)
    /\ runs = 1

\* what a mapping from command names to usage records is
IsMapping(m) ==
    /\ DOMAIN m \subseteq Cmds
    /\ \A c \in DOMAIN m : FitsU32(m[c].usage_count) /\ m[c].last_used >= 0

Broken(f) ==
    \/ f.kind \in {"absent", "unreadable", "garbage"}
    \/ \E i \in DOMAIN f.text : ~FitsU32(f.text[i].usage_count)

\* C7: load_stats always yields a mapping: the empty one when the file is
\* absent, unreadable or not a valid object, and otherwise the map that was
\* last saved; an invocation of stats never ends in an error.
C7_LoadNeverFails ==
    /\ IsMapping(load_stats(file))
    /\ Broken(file) => load_stats(file) = EmptyMap
    /\ (~Broken(file) /\ lastSaved.written) => load_stats(file) = lastSaved.map
    /\ \A p \in Procs :
          (pc[p] = "done" /\ inv[p].token = "stats") => exit[p] = ExitOk

C7_Witness ==
    /\ file.kind = "json" /\ Broken(file)
    /\ pc[1] = "done" /\ inv[1].token = "stats"
    /\ msg[1] = "nodata" /\ exit[1] = ExitOk

\* argv is token followed by extra, in order
Forwarded(a, token, extra) ==
    /\ Len(a) = 1 + Len(extra)
    /\ a[1] = token
    /\ \A i \in DOMAIN extra : a[i + 1] = extra[i]

\* the invocation went to execute_cargo_command
Dispatched(p) == msg[p] \in {"running", "failed", "error", "panic"}

\* C8: every token that is not an analytic name goes to the executor, and
\* the child gets the token followed by the forwarded arguments.
C8_EveryTokenForwarded ==
    \A p \in Procs :
        (pc[p] = "done" /\ inv[p].token \notin Analytic \cup {""})
            => /\ Dispatched(p)
               /\ ChildEnded(p) => Forwarded(argv[p], inv[p].token, inv[p].extra)

\* What the code does instead: build, clean and run go to the executor, and
\* a child that is started gets the token followed by what get_many("args")
\* yielded; a token that is not registered is rejected and nothing is
\* started for it.
C8_RegisteredOnly ==
    \A p \in Procs :
        /\ (pc[p] = "done" /\ inv[p].token \in Passthrough) => Dispatched(p)
        /\ ChildStarted(p)
              => /\ inv[p].token \in Passthrough
                 /\ Forwarded(argv[p], inv[p].token, inv[p].extra)
        /\ (pc[p] = "done" /\ inv[p].token \notin Registered)
              => /\ ~Dispatched(p)
                 /\ argv[p] = <<>> /\ child[p] = Pending

\* the claim's reading of a manifest
IsHeader(l) == StartsWith(Trim(l), <<"[">>)
IsDepsHeader(l) == StartsWith(Trim(l), DepsMarker)
\* line i lies after a dependencies header with no header in between
InDepsSection(t, i) ==
    /\ ~IsHeader(t[i])
    /\ \E j \in 1..(i - 1) :
          /\ IsDepsHeader(t[j])
          /\ \A k \in (j + 1)..(i - 1) : ~IsHeader(t[k])
\* the trimmed text before the first '='
NameOf(l) ==
    LET eqs == {i \in DOMAIN l : l[i] = "="}
    IN IF eqs = {} THEN Trim(l)
       ELSE Trim(SubSeq(l, 1, (CHOOSE i \in eqs : \A j \in eqs : i <= j) - 1))
\* the names to report among the first n lines, in line order
RECURSIVE Reported(_, _, _)
Reported(t, l, n) ==
    IF n = 0 THEN <<>>
    ELSE IF InDepsSection(t, n) /\ ~Contains(l, NameOf(t[n]))
         THEN Append(Reported(t, l, n - 1), NameOf(t[n]))
         ELSE Reported(t, l, n - 1)

\* C9: (SpecDeps) after the scan of any number of lines the names collected
\* are, in line order, those of the lines inside the dependencies section
\* that are no substring of the lock text; for the example manifest and the
\* lock text foo the result is bar alone.
C9_UnusedReport ==
    /\ scan.unused = Reported(toml, lock, idx)
    /\ (toml = ExampleToml /\ lock = T_foo /\ idx = Len(toml)) => scan.unused = <<T_bar>>

C9_Witness ==
    /\ toml = ExampleToml /\ lock = T_foo
    /\ idx = Len(toml)
    /\ scan.unused = <<T_bar>>

\* C10: the table of show_stats lists every stored record once, ranked 1..n,
\* and no row has a larger count than a row above it.
C10_SortedByCount ==
    \A p \in Procs :
        (pc[p] = "done" /\ inv[p].token = "stats")
            => LET m == load_stats(file)
                   r == rows[p]
               IN /\ (m = EmptyMap) <=> (msg[p] = "nodata")
                  /\ Len(r) = Cardinality(DOMAIN m)
                  /\ {r[i].cmd : i \in DOMAIN r} = DOMAIN m
                  /\ \A i \in DOMAIN r :
                        r[i].rank = i /\ r[i].count = m[r[i].cmd].usage_count
                  /\ \A i, j \in DOMAIN r : i < j => AtMost(r[j].count, r[i].count)

C10_Witness ==
    /\ pc[1] = "done" /\ inv[1].token = "stats"
    /\ Len(rows[1]) = 3
    /\ rows[1][1].count = Num(5) /\ rows[1][2].count = Num(3) /\ rows[1][3].count = Num(1)
    /\ rows[1][1].cmd = "build" /\ rows[1][2].cmd = "run" /\ rows[1][3].cmd = "clean"

\* the store was absent or held the empty mapping at the start
EmptyAtStart == file0 = Absent \/ file0 = Json(<<>>)

\* C11: starting from an absent or empty store, every record the file holds
\* has a count of at least 1.
C11_CountAtLeastOne ==
    EmptyAtStart =>
        \A c \in DOMAIN load_stats(file) : AtMost(Num(1), load_stats(file)[c].usage_count)

C11_Witness ==
    /\ EmptyAtStart
    /\ wiped
    /\ Stored("build") = Num(1)
    /\ Stored("clean") = Num(1)

\* C12: when cargo cannot be started on the forwarding path, the wrapper
\* ends, and with a status that is not 0.
C12_SpawnFailureFatal ==
    [][\A p \in Procs :
          (pc[p] = "spawning" /\ pc'[p] # "running")
              => /\ pc'[p] = "done"
                 /\ exit'[p] # ExitOk /\ exit'[p] # NoExit
                 /\ child'[p] = Pending]_vars

\* the write of track_command succeeded, the spawn failed
C12_Witness ==
    /\ pc[1] = "done" /\ inv[1].token = "build"
    /\ runs = 1 /\ calls["build"] = 1 /\ ~fault
    /\ child[1] = Pending /\ argv[1] = <<>>
    /\ exit[1] = ExitErr

\* p has run build-time to its end
Profiled(p) == pc[p] = "done" /\ inv[p].token = "build-time"

\* C13: build-time ends in an error only when cargo could not be started;
\* when cargo ran and did not succeed, the wrapper still exits 0, reports
\* the failed build and prints neither the size nor the timing lines.
C13_FailedBuildIsNoError ==
    \A p \in Procs :
        Profiled(p)
            => /\ exit[p] \in {ExitOk, ExitErr}
               /\ (exit[p] = ExitErr) <=> (prof[p].status = Pending)
               /\ prof[p].status \notin {Pending, 0}
                     => /\ exit[p] = ExitOk
                        /\ "failed" \in Range(prof[p].lines)
                        /\ Range(prof[p].lines) \cap {"completed", "size", "timings"} = {}

C13_Witness ==
    /\ Profiled(1)
    /\ prof[1].status = 7
    /\ exit[1] = ExitOk
    /\ prof[1].lines = <<"analyzing", "failed">>

\* a line of the tool's output that contains the marker "slowest"
IsSlowestLine(l) == l \in {"slowest: a", "slowest: b"}
SlowestLines(output) == SelectSeq(output, IsSlowestLine)

\* C14: when the output of the build tool has lines with "slowest", the
\* last of them is what build-time gives as slowest unit; when it has none,
\* build-time gives none.
C14_SlowestUnitExposed ==
    \A p \in Procs :
        (Profiled(p) /\ prof[p].status # Pending)
            => LET sl == SlowestLines(prof[p].output)
                   given == {l \in Range(prof[p].lines) : IsSlowestLine(l)}
               IN IF sl = <<>> THEN given = {} ELSE given = {sl[Len(sl)]}

\* the stored count of c after the step
StoredNext(c) == CountOf(load_stats(file'), c)

\* the save of track_command(c) succeeds in this step
TrackCompletes(p, c) ==
    pc[p] = "tracking" /\ pc'[p] = "spawning" /\ inv[p].token = c

\* C15: as long as no write fails, a track_command(x) that completes makes
\* the stored count of x exactly one higher, whatever u32 it was, and no
\* step other than a reset --force makes it lower.
C15_CountMonotonic ==
    [][~fault' =>
          \A x \in Cmds :
              /\ (\E p \in Procs : TrackCompletes(p, x)) => Succ(Stored(x), StoredNext(x))
              /\ (\A p \in Procs : ~ResetStep(p, <<"--force">>))
                    => AtMost(Stored(x), StoredNext(x))]_vars

\* Apart from a count at the top of the u32 range, C15 holds.
C15_ExceptOverflow ==
    [][~fault' =>
          \A x \in Cmds :
              Stored(x) # U32Max =>
                  /\ (\E p \in Procs : TrackCompletes(p, x)) => Succ(Stored(x), StoredNext(x))
                  /\ (\A p \in Procs : ~ResetStep(p, <<"--force">>))
                        => AtMost(Stored(x), StoredNext(x))]_vars

\* the step in which track_command's save_stats writes, or fails to
TrackWrites(p) == pc[p] = "tracking" /\ pc'[p] # "tracking"

\* an invocation of `stats` runs in this step
ShowStep(p) ==
    runs' = runs + 1 /\ pc'[p] = "done" /\ inv'[p].token = "stats"

\* C16: the statistics file changes only in the save of track_command or in
\* a reset --force (so an absent file stays absent until then), and stats on
\* a store that loads as empty prints "no data", no table, and ends with
\* success leaving the file alone.
C16_OnlyTrackAndForcedResetWrite ==
    [][/\ file' # file =>
             \E p \in Procs : TrackWrites(p) \/ ResetStep(p, <<"--force">>)
       /\ \A p \in Procs :
             (ShowStep(p) /\ load_stats(file) = EmptyMap) =>
                 /\ msg'[p] = "nodata"
                 /\ rows'[p] = <<>>
                 /\ exit'[p] = ExitOk
                 /\ file' = file]_vars

\* stats has just reported "no data" on a store that was absent from the
\* start and, after an earlier invocation, still is
C16_Witness ==
    /\ file0 = Absent
    /\ file = Absent
    /\ runs >= 2
    /\ pc[1] = "done"
    /\ inv[1].token = "stats"
    /\ msg[1] = "nodata"
    /\ rows[1] = <<>>

\* C17: when the file is a well-formed store, a track_command(x) that
\* completes leaves every record other than x's as it was (count and
\* last_used), removes none and adds none but x's.
C17_TrackChangesOnlyItsRecord ==
    [][\A p \in Procs :
          (TrackCompletes(p, inv[p].token) /\ Deserializable(file)) =>
              LET old == load_stats(file)
                  new == load_stats(file')
              IN /\ DOMAIN new = DOMAIN old \cup {inv[p].token}
                 /\ \A y \in DOMAIN old \ {inv[p].token} : new[y] = old[y]]_vars

\* build has been tracked on a store of three records: clean and run are
\* as they were
C17_Witness ==
    /\ file0 = Json(<<Member("build", Num(5), 1), Member("clean", Num(1), 1),
                      Member("run", Num(3), 2)>>)
    /\ runs = 1
    /\ pc[1] = "spawning"
    /\ inv[1].token = "build"
    /\ Stored("build") = Num(6)
    /\ load_stats(file)["clean"] = [usage_count |-> Num(1), last_used |-> 1]
    /\ load_stats(file)["run"] = [usage_count |-> Num(3), last_used |-> 2]

\* C18: execute_cargo_command gets to the spawn only from a save that wrote
\* the updated map; when the save fails the invocation ends at once with a
\* failure status, an error reported, and no child started; and cargo is
\* never given arguments from any place other than after that save.
C18_SpawnOnlyAfterSave ==
    [][\A p \in Procs :
          /\ (pc[p] = "tracking" /\ pc'[p] = "done") =>
                /\ exit'[p] = ExitErr
                /\ msg'[p] = "error"
                /\ child'[p] = Pending
                /\ argv'[p] = <<>>
          /\ (pc[p] # "spawning" /\ pc'[p] = "spawning") =>
                /\ pc[p] = "tracking"
                /\ file' = Json(to_string_pretty(stats[p], iter_order(stats[p])))
          /\ (argv[p] = <<>> /\ argv'[p] # <<>>) => pc[p] = "spawning"]_vars

\* the first invocation, a passthrough command, has ended in an error
\* because its save failed: nothing was counted and no child was started
C18_Witness ==
    /\ runs = 1
    /\ pc[1] = "done"
    /\ inv[1].token \in Passthrough
    /\ fault
    /\ calls[inv[1].token] = 0
    /\ exit[1] = ExitErr
    /\ child[1] = Pending
    /\ argv[1] = <<>>

\* the file exists and can be opened, but from_reader rejects its content
Malformed(f) == f.kind = "garbage" \/ (f.kind = "json" /\ ~Deserializable(f))

\* C19: a track_command(x) that completes on a malformed file replaces the
\* file by one that holds exactly the record of x, with count 1, whatever
\* members it held before, and the invocation goes on with no error.
C19_MalformedRewritten ==
    [][\A p \in Procs :
          (TrackCompletes(p, inv[p].token) /\ Malformed(file)) =>
              /\ file'.kind = "json"
              /\ Len(file'.text) = 1
              /\ file'.text[1].key = inv[p].token
              /\ file'.text[1].usage_count = Num(1)
              /\ DOMAIN load_stats(file') = {inv[p].token}
              /\ exit'[p] = NoExit
              /\ msg'[p] = "running"
              /\ fault' = fault]_vars

\* clean has been tracked on a file that held build and an out-of-range
\* count for run: the file is now the one record of clean
C19_Witness ==
    /\ file0 = Json(<<Member("build", Num(4), 1), Member("run", TooBig, 1)>>)
    /\ runs = 1
    /\ pc[1] = "spawning"
    /\ inv[1].token = "clean"
    /\ file.kind = "json"
    /\ Len(file.text) = 1
    /\ file.text[1].key = "clean"
    /\ file.text[1].usage_count = Num(1)
    /\ exit[1] = NoExit

====
